---- MODULE Spec2Model ----
(***************************************************************************)
(* A model of the minute-close message (EOM) of factomd,                   *)
(* common/messages/eom.go: its binary codec, its hash cache, its           *)
(* signature, and its leader / follower transitions against the node       *)
(* state facade.                                                           *)
(*                                                                         *)
(* Bytes are the naturals 0..255 and a byte slice is a sequence of them.   *)
(* The codecs of Timestamp, Hash and Signature, the signing primitives and *)
(* the node state live outside eom.go (packages interfaces, primitives);   *)
(* they are modelled by the contracts eom.go relies on.                    *)
(***************************************************************************)
EXTENDS Integers, Sequences, FiniteSets

\* ------------------------------------------------------------------ bounds

\* Bytes of an encoded timestamp.
TsLen == 2
\* Bytes of an encoded hash (identity chain id, message hash).
HashLen == 2
\* Bytes of the signature proper (after the public key byte).
SigLen == 2
\* Signing keys in the model: 1..NKeys.
NKeys == 2
\* Messages a sender builds in one behaviour.
MaxMessages == 2
\* Longest process-list slot 0.
MaxList == 3
\* Nested FollowerExecute calls the goroutine stack holds.
MaxDepth == 2
\* Capacity of each message queue (a buffered channel).
QueueCap == 1
\* Minute-close messages the network delivers in one behaviour.
MaxArrivals == 2
\* Largest network number a node is configured with.
MaxNetworkNumber == 3

\* -------------------------------------------------------- program constants

\* constants.EOM_MSG, the type tag returned by Type().
EOM_MSG == 0
\* constants.NETWORK_MAIN, NETWORK_TEST, NETWORK_LOCAL and SERVER_MODE.
NETWORK_MAIN == 0
NETWORK_TEST == 1
NETWORK_LOCAL == 2
SERVER_MODE == 1


\* ------------------------------------------------------------ byte helpers

RECURSIVE BEBytes(_, _)
\* n bytes, big-endian, of the natural v (binary.BigEndian / binary.Write).
BEBytes(v, n) ==
  IF n = 0 THEN <<>> ELSE Append(BEBytes(v \div 256, n - 1), v % 256)

RECURSIVE BEValue(_)
\* The natural a big-endian byte sequence stands for (binary.BigEndian.Uint32).
BEValue(bs) ==
  IF Len(bs) = 0 THEN 0
  ELSE 256 * BEValue(SubSeq(bs, 1, Len(bs) - 1)) + bs[Len(bs)]

\* bs[n:] of Go: the bytes after the first n.
Drop(bs, n) == SubSeq(bs, n + 1, Len(bs))
\* bs[:n] of Go, for n <= len(bs).
Take(bs, n) == SubSeq(bs, 1, n)

RECURSIVE WeightedSum(_, _, _)
WeightedSum(bs, i, w) ==
  IF i > Len(bs) THEN 0 ELSE (bs[i] * (i + w) + WeightedSum(bs, i + 1, w)) % 65521

\* A digest of n bytes over data, keyed by k: stands for SHA-256 (k = 0) and
\* for the ed25519 signature of key k.
Digest(k, data, n) ==
  [j \in 1..n |-> (k * 89 + j * 13 + WeightedSum(data, 1, 2 * j - 1)) % 256]

\* primitives.Sha: the hash of a byte slice.
Sha(data) == Digest(0, data, HashLen)

\* ------------------------------------------------------------------ values

NoErr == "nil"
\* A nil interfaces.IHash.
NoHash == <<>>
\* A nil interfaces.IFullSignature.
NoSig == [Pub |-> 0, Sig |-> <<>>]

Keys == 1..NKeys
\* The public key byte of signing key k.
PubOf(k) == 100 + k

\* Field values a sender gives a message.
Timestamps == {0, 258}
\* Integers a caller hands NewEOM as the minute.
MinuteArgs == (0..10) \cup {-1, 255, 256}
\* byte(v) of Go for an int v: its low eight bits.
ByteOf(v) == v % 256
\* The minute bytes those arguments give.
Minutes == {ByteOf(a) : a \in MinuteArgs}
Heights == {0, 66051}
Hashes == {[i \in 1..HashLen |-> 17], [i \in 1..HashLen |-> 30 + i]}

\* new(EOM): every field at its zero value.
ZeroEOM ==
  [Timestamp |-> 0, Minute |-> 0, DirectoryBlockHeight |-> 0,
   IdentityChainID |-> NoHash, Signature |-> NoSig, hash |-> NoHash]

\* The exported fields Sign covers.
SignedFields(m) ==
  <<m.Timestamp, m.Minute, m.DirectoryBlockHeight, m.IdentityChainID>>

\* ------------------------------------------- codecs of the field types

TimestampMarshalBinary(t) == BEBytes(t, TsLen)

TimestampUnmarshalBinaryData(data) ==
  IF Len(data) < TsLen
  THEN [value |-> 0, newData |-> <<>>, err |-> "TruncatedInput"]
  ELSE [value |-> BEValue(Take(data, TsLen)), newData |-> Drop(data, TsLen),
        err |-> NoErr]

HashMarshalBinary(h) == h

HashUnmarshalBinaryData(data) ==
  IF Len(data) < HashLen
  THEN [value |-> NoHash, newData |-> <<>>, err |-> "TruncatedInput"]
  ELSE [value |-> Take(data, HashLen), newData |-> Drop(data, HashLen),
        err |-> NoErr]

SignatureMarshalBinary(sig) == <<sig.Pub>> \o sig.Sig

SignatureUnmarshalBinaryData(data) ==
  IF Len(data) < 1 + SigLen
  THEN [value |-> NoSig, newData |-> <<>>, err |-> "TruncatedInput"]
  ELSE [value |-> [Pub |-> data[1], Sig |-> SubSeq(data, 2, 1 + SigLen)],
        newData |-> Drop(data, 1 + SigLen), err |-> NoErr]

\* Signer.Sign: the signature of key k over data.
SignData(k, data) == [Pub |-> PubOf(k), Sig |-> Digest(k, data, SigLen)]

\* IFullSignature.Verify: the signature is the one its public key's owner
\* makes over data.
SigVerify(sig, data) ==
  \E k \in Keys : PubOf(k) = sig.Pub /\ sig.Sig = Digest(k, data, SigLen)

\* -------------------------------------------------------------- EOM codec

Type == EOM_MSG

\* m.MarshalForSignature panics on a nil IdentityChainID (a method call on a
\* nil interface); no other step of it fails.
MarshalForSignaturePanics(m) == m.IdentityChainID = NoHash

\* A variant of the payload that leaves the minute out.
MarshalForSignature_NoMinute(m) ==
  <<Type>> \o TimestampMarshalBinary(m.Timestamp)
    \o BEBytes(m.DirectoryBlockHeight, 4) \o HashMarshalBinary(m.IdentityChainID)

MarshalForSignature(m) ==
  <<Type>> \o TimestampMarshalBinary(m.Timestamp) \o <<m.Minute>>
    \o BEBytes(m.DirectoryBlockHeight, 4) \o HashMarshalBinary(m.IdentityChainID)

GetSignature(m) == m.Signature

MarshalBinary(m) ==
  LET resp == MarshalForSignature(m)
      sig == GetSignature(m)
  IN IF sig # NoSig THEN resp \o SignatureMarshalBinary(sig) ELSE resp

\* What UnmarshalBinaryData returns and leaves in its receiver. newData is
\* the named result: a recovered panic returns whatever it held last.
Returned(m, newData, isNil, err) ==
  [m |-> m, newData |-> newData, newDataNil |-> isNil, err |-> err,
   panic |-> FALSE]

\* A variant of the deferred function that does not recover: the panic goes
\* on up the stack.
Recovered_Escapes(m, newData, isNil) ==
  [Returned(m, newData, isNil, NoErr) EXCEPT !.panic = TRUE]

\* The deferred function: a panic in the body (a slice bound out of range)
\* is recovered into err; the named results are returned as they stand.
Recovered(m, newData, isNil) == Returned(m, newData, isNil, "Recovered")

\* Variants of the range check: the last minute refused; ten let through.
MinuteOutOfRange_RefusesNine(minute) == minute < 0 \/ minute >= 9
MinuteOutOfRange_AcceptsTen(minute) == minute < 0 \/ minute > 10

\* The range check of the minute byte.
MinuteOutOfRange(minute) == minute < 0 \/ minute >= 10

\* A variant of the trailing signature's decoding that takes a signature it
\* cannot decode for no signature.
UnmarshalSignature_DropsError(m, newData, data) ==
  IF Len(newData) > 0
  THEN LET sig == SignatureUnmarshalBinaryData(newData) IN
       IF sig.err # NoErr THEN Returned(m, data, FALSE, NoErr)
       ELSE Returned([m EXCEPT !.Signature = sig.value], data, FALSE, NoErr)
  ELSE Returned(m, data, FALSE, NoErr)

\* The optional trailing signature: decoded when bytes remain after the
\* identity hash. On success the function returns data, its whole input.
UnmarshalSignature(m, newData, data) ==
  IF Len(newData) > 0
  THEN LET sig == SignatureUnmarshalBinaryData(newData) IN
       IF sig.err # NoErr THEN Returned(m, <<>>, TRUE, sig.err)
       ELSE Returned([m EXCEPT !.Signature = sig.value], data, FALSE, NoErr)
  ELSE Returned(m, data, FALSE, NoErr)

UnmarshalBinaryData(m, data) ==
  IF Len(data) < 1 THEN Recovered(m, <<>>, TRUE) ELSE
  LET ts == TimestampUnmarshalBinaryData(Drop(data, 1)) IN
  IF ts.err # NoErr THEN Returned(m, <<>>, TRUE, ts.err) ELSE
  LET m1 == [m EXCEPT !.Timestamp = ts.value]
      nd1 == ts.newData
  IN
  IF Len(nd1) < 1 THEN Recovered(m1, nd1, FALSE) ELSE
  LET m2 == [m1 EXCEPT !.Minute = nd1[1]]
      nd2 == Drop(nd1, 1)
  IN
  IF MinuteOutOfRange(m2.Minute)
  THEN Returned(m2, <<>>, TRUE, "OutOfRange") ELSE
  IF Len(nd2) < 4 THEN Recovered(m2, nd2, FALSE) ELSE
  LET m3 == [m2 EXCEPT !.DirectoryBlockHeight = BEValue(Take(nd2, 4))]
      nd3 == Drop(nd2, 4)
      h == HashUnmarshalBinaryData(nd3)
  IN
  IF h.err # NoErr THEN Returned(m3, <<>>, TRUE, h.err) ELSE
  UnmarshalSignature([m3 EXCEPT !.IdentityChainID = h.value], h.newData, data)

UnmarshalBinary(m, data) ==
  LET r == UnmarshalBinaryData(m, data)
  IN [m |-> r.m, err |-> r.err, panic |-> r.panic]

\* GetHash: the cached hash if there is one, else the hash of the payload,
\* which it caches. It panics (and caches nothing) when the payload cannot
\* be marshalled.
GetHash(m) ==
  IF m.hash = NoHash
  THEN IF MarshalForSignaturePanics(m)
       THEN [m |-> m, ret |-> NoHash, panic |-> TRUE]
       ELSE LET h == Sha(MarshalForSignature(m))
            IN [m |-> [m EXCEPT !.hash = h], ret |-> h, panic |-> FALSE]
  ELSE [m |-> m, ret |-> m.hash, panic |-> FALSE]

\* SignSignable: sign the payload of m with key.
SignSignable(m, key) == SignData(key, MarshalForSignature(m))

\* A variant of Sign that also drops the cached hash and stamps the message
\* anew.
Sign_Restamps(m, key) ==
  [m EXCEPT !.Signature = SignSignable(m, key), !.hash = NoHash,
            !.Timestamp = 0]

Sign(m, key) == [m EXCEPT !.Signature = SignSignable(m, key)]

\* VerifyMessage: (false, error) without a signature, else whether the
\* signature is over the payload m has now.
VerifyMessage(m) ==
  IF GetSignature(m) = NoSig
  THEN [ok |-> FALSE, err |-> "NoSignature"]
  ELSE [ok |-> SigVerify(GetSignature(m), MarshalForSignature(m)), err |-> NoErr]

VerifySignature(m) == VerifyMessage(m)

\* ------------------------------------------------------------------- state

VARIABLES
  \* -- the codec scenario
  src,       \* the sender's EOM
  dst,       \* the receiver's EOM, the target of UnmarshalBinary
  call,      \* the last operation on a message and what it returned
  sent,      \* after a decode: the sender's EOM as it was marshalled, its
             \* encoding, and how many bytes of it the receiver was given
  signedAs,  \* the signed fields src had when it was last signed
  built,     \* messages the sender has built so far
  \* -- the node
  plist,           \* slot 0 of the process list: "msg", or "eom" for the
                   \* minute-close message itself held in the list
  networkNumber,   \* state.GetNetworkNumber()
  serverState,     \* state.GetServerState()
  dblocks,         \* directory blocks closed by ProcessEndOfBlock
  inQ,             \* state.InMsgQueue()
  outQ,            \* state.NetworkOutMsgQueue()
  leaderQ,         \* state.LeaderInMsgQueue()
  fw,              \* the follower worker: the engine and its FollowerExecute
  lw,              \* the leader worker and its LeaderExecute
  trace,           \* what the running FollowerExecute has done, in order
  published,       \* the sends of the running LeaderExecute, in order
  halted,          \* "" while the node runs, else why it aborted
  arrivals         \* minute-close messages delivered so far

codecVars == <<src, dst, call, sent, signedAs, built>>

execVars ==
  <<plist, networkNumber, serverState, dblocks, inQ, outQ, leaderQ, fw, lw,
    trace, published, halted, arrivals>>

NoCall ==
  [op |-> "none", on |-> "none", fresh |-> FALSE, data |-> <<>>,
   newData |-> <<>>, newDataNil |-> TRUE, err |-> NoErr,
   ok |-> FALSE, ret |-> NoHash, panic |-> FALSE]

NoSent == [m |-> ZeroEOM, full |-> <<>>, cut |-> 0]

\* NewEOM: a new EOM whose Minute is byte(minute), whatever the integer.
NewEOM(state, minute) == [ZeroEOM EXCEPT !.Minute = ByteOf(minute)]

\* A message as its sender builds it: NewEOM, then every other signed field
\* assigned; no signature, no hash read yet.
Build(t, minute, h, id) ==
  [NewEOM(0, minute) EXCEPT !.Timestamp = t, !.DirectoryBlockHeight = h,
                            !.IdentityChainID = id]

Constructed ==
  {Build(t, minute, h, id) :
     t \in Timestamps, minute \in MinuteArgs, h \in Heights, id \in Hashes}

CodecInit ==
  /\ src \in Constructed
  /\ dst = ZeroEOM
  /\ call = NoCall
  /\ sent = NoSent
  /\ signedAs = <<>>
  /\ built = 1

\* src.Sign(key)
SignSrc ==
  \E key \in Keys :
    /\ halted = ""
    /\ src' = Sign(src, key)
    /\ signedAs' = SignedFields(src)
    /\ call' = [NoCall EXCEPT !.op = "Sign", !.on = "src"]
    /\ sent' = NoSent
    /\ UNCHANGED <<dst, built>>
    /\ UNCHANGED execVars

\* src.GetHash()
GetHashSrc ==
  LET r == GetHash(src) IN
  /\ halted = ""
  /\ src' = r.m
  /\ call' = [NoCall EXCEPT !.op = "GetHash", !.on = "src", !.ret = r.ret,
                            !.panic = r.panic]
  /\ sent' = NoSent
  /\ UNCHANGED <<dst, signedAs, built>>
  /\ UNCHANGED execVars

\* dst.GetHash()
GetHashDst ==
  LET r == GetHash(dst) IN
  /\ halted = ""
  /\ dst' = r.m
  /\ call' = [NoCall EXCEPT !.op = "GetHash", !.on = "dst", !.ret = r.ret,
                            !.panic = r.panic]
  /\ sent' = NoSent
  /\ UNCHANGED <<src, signedAs, built>>
  /\ UNCHANGED execVars

\* The holder of a signed message assigns one of its exported fields
\* without signing again.
MutateSrc ==
  /\ halted = ""
  /\ src.Signature # NoSig
  /\ \/ \E t \in Timestamps \ {src.Timestamp} :
          src' = [src EXCEPT !.Timestamp = t]
     \/ \E mi \in Minutes \ {src.Minute} : src' = [src EXCEPT !.Minute = mi]
     \/ \E h \in Heights \ {src.DirectoryBlockHeight} :
          src' = [src EXCEPT !.DirectoryBlockHeight = h]
     \/ \E id \in Hashes \ {src.IdentityChainID} :
          src' = [src EXCEPT !.IdentityChainID = id]
  /\ call' = [NoCall EXCEPT !.op = "Mutate", !.on = "src"]
  /\ sent' = NoSent
  /\ UNCHANGED <<dst, signedAs, built>>
  /\ UNCHANGED execVars

\* src.VerifySignature()
VerifySrc ==
  LET r == VerifySignature(src) IN
  /\ halted = ""
  /\ call' = [NoCall EXCEPT !.op = "Verify", !.on = "src", !.ok = r.ok,
                            !.err = r.err]
  /\ sent' = NoSent
  /\ UNCHANGED <<src, dst, signedAs, built>>
  /\ UNCHANGED execVars

\* The sender marshals src; the receiver is given the first cut bytes of the
\* encoding (all of them, or a truncation) and unmarshals them into target.
\* The decoder is handed no node state; a panic that left it would abort
\* the node.
DecodeInto(target, fresh) ==
  \E cut \in 0..Len(MarshalBinary(src)) :
    LET full == MarshalBinary(src)
        data == Take(full, cut)
        r == UnmarshalBinaryData(target, data)
    IN /\ halted = ""
       /\ dst' = r.m
       /\ sent' = [m |-> src, full |-> full, cut |-> cut]
       /\ call' = [NoCall EXCEPT !.op = "Unmarshal", !.on = "dst",
                                 !.fresh = fresh, !.data = data,
                                 !.newData = r.newData,
                                 !.newDataNil = r.newDataNil, !.err = r.err,
                                 !.panic = r.panic]
       /\ halted' = IF r.panic THEN "decode" ELSE halted
       /\ UNCHANGED <<src, signedAs, built>>
       /\ UNCHANGED <<plist, networkNumber, serverState, dblocks, inQ, outQ,
                      leaderQ, fw, lw, trace, published, arrivals>>

\* The receiver unmarshals into a new EOM.
DecodeFresh == DecodeInto(ZeroEOM, TRUE)

\* The receiver unmarshals into the EOM it used before.
DecodeReuse == DecodeInto(dst, FALSE)

\* The sender builds its next message, closing the next minute.
NextMessage ==
  /\ halted = ""
  /\ built < MaxMessages
  /\ src' = Build(src.Timestamp, (src.Minute + 1) % 10,
                  src.DirectoryBlockHeight, src.IdentityChainID)
  /\ built' = built + 1
  /\ signedAs' = <<>>
  /\ call' = [NoCall EXCEPT !.op = "Build", !.on = "src"]
  /\ sent' = NoSent
  /\ UNCHANGED dst
  /\ UNCHANGED execVars

\* ---------------------------------------------------------------- the node

vars ==
  <<src, dst, call, sent, signedAs, built, plist, networkNumber, serverState,
    dblocks, inQ, outQ, leaderQ, fw, lw, trace, published, halted, arrivals>>

\* Messages as the queues carry them: a minute-close message, or the
\* directory-block-signature message LeaderExecute builds.
EOMMsg(minute) ==
  [type |-> "EOM", Minute |-> minute, KeyMR |-> 0, Signed |-> FALSE]
DBSMsg(keyMR, signed) ==
  [type |-> "DBS", Minute |-> 0, KeyMR |-> keyMR, Signed |-> signed]

\* Minutes of the minute-close messages the network delivers.
ExecMinutes == {0, 8, 9}

\* Every process-list slot 0 of up to MaxList messages.
Lists == UNION {[1..n -> {"msg", "eom"}] : n \in 0..MaxList}

\* The node state the message methods are handed.
State == [networkNumber |-> networkNumber, serverState |-> serverState]

\* state.GetPreviousDirectoryBlock().GetKeyMR()
PreviousKeyMR == 40 + dblocks

Validate(m, state) == 1

\* A variant of Leader that claims the message for a node in server mode.
Leader_InServerMode(m, state) == state.serverState = SERVER_MODE

Leader(m, state) == FALSE

Follower(m, state) == TRUE

\* A variant of the loop that walks the slot from its end.
RangeIndex_Backwards(list, k) == Len(list) + 1 - k

\* The k-th message `range state.GetProcessList()[0]` yields.
RangeIndex(list, k) == k

\* A variant of the network switch whose default case does nothing.
ProfilePanics_NoDefault(number) ==
  IF number = NETWORK_MAIN THEN TRUE
  ELSE IF number = NETWORK_TEST THEN TRUE
  ELSE FALSE

\* The network switch: only the local network gets past it.
ProfilePanics(number) ==
  IF number = NETWORK_MAIN THEN TRUE
  ELSE IF number = NETWORK_TEST THEN TRUE
  ELSE IF number = NETWORK_LOCAL THEN FALSE
  ELSE TRUE

\* A variant of the last-minute test that is one minute early.
LastMinute_FromEight(minute) == minute >= 8

\* The last minute of a block.
LastMinute(minute) == minute = 9

\* A variant of the server-mode test that holds on every node.
InServerMode_Always(state) == TRUE

\* state.GetServerState() == constants.SERVER_MODE
InServerMode(state) == state.serverState = SERVER_MODE

\* A variant of the loop that goes on after a replay's error.
ReplayPanics_Never(failed) == FALSE

\* The loop panics when the FollowerExecute of a replayed message returns
\* an error.
ReplayPanics(failed) == failed

\* A variant of a channel send that blocks for ever.
CanSend_Never(q) == FALSE

\* A send on a buffered channel goes through when the buffer has room, and
\* blocks while it is full.
CanSend(q) == Len(q) < QueueCap

\* A variant of a channel send that loses the message.
ChanSend_Drops(q, msg) == q

\* q <- msg once it goes through: msg is at the end of the buffer.
ChanSend(q, msg) == Append(q, msg)

IdleFollower ==
  [pc |-> "idle", life |-> "none", role |-> "none", Minute |-> 0,
   frames |-> <<>>, result |-> "none"]

IdleLeader ==
  [pc |-> "idle", dbm |-> DBSMsg(0, FALSE), keyMR |-> 0, result |-> "none"]

Event(ev, arg, depth) == [ev |-> ev, arg |-> arg, depth |-> depth]

\* A variant of the transition that does not tell the ledger.
EndOfPeriod_Skipped(tr, minute, depth) == tr

\* state.GetFactoidState().EndOfPeriod(int(m.Minute)), as the call it is.
EndOfPeriod(tr, minute, depth) ==
  Append(tr, Event("EndOfPeriod", minute, depth))

ExecInit ==
  /\ plist \in Lists
  /\ networkNumber \in 0..MaxNetworkNumber
  /\ serverState \in {0, SERVER_MODE}
  /\ dblocks = 0
  /\ inQ = <<>>
  /\ outQ = <<>>
  /\ leaderQ = <<>>
  /\ fw = IdleFollower
  /\ lw = IdleLeader
  /\ trace = <<>>
  /\ published = <<>>
  /\ halted = ""
  /\ arrivals = 0

\* A panic nobody recovers: the node aborts.
Abort(why) ==
  /\ halted' = why
  /\ fw' = [fw EXCEPT !.result = "fatal"]

\* The network delivers a minute-close message to the inbound queue.
NetDeliver ==
  /\ halted = ""
  /\ arrivals < MaxArrivals
  /\ Len(inQ) < QueueCap
  /\ \E minute \in ExecMinutes : inQ' = Append(inQ, EOMMsg(minute))
  /\ arrivals' = arrivals + 1
  /\ UNCHANGED <<plist, networkNumber, serverState, dblocks, outQ, leaderQ,
                 fw, lw, trace, published, halted>>
  /\ UNCHANGED codecVars

\* The network takes a message off the outbound queue.
NetSend ==
  /\ halted = ""
  /\ outQ # <<>>
  /\ outQ' = Tail(outQ)
  /\ UNCHANGED <<plist, networkNumber, serverState, dblocks, inQ, leaderQ,
                 fw, lw, trace, published, halted, arrivals>>
  /\ UNCHANGED codecVars

\* The engine takes the next inbound message. A minute-close message is
\* Received; any other message is processed by its own type.
EngineReceive ==
  /\ halted = ""
  /\ fw.pc = "idle"
  /\ inQ # <<>>
  /\ inQ' = Tail(inQ)
  /\ IF Head(inQ).type = "EOM"
     THEN /\ fw' = [IdleFollower EXCEPT !.pc = "received",
                                        !.life = "Received",
                                        !.Minute = Head(inQ).Minute]
          /\ trace' = <<>>
     ELSE UNCHANGED <<fw, trace>>
  /\ UNCHANGED <<plist, networkNumber, serverState, dblocks, outQ, leaderQ,
                 lw, published, halted, arrivals>>
  /\ UNCHANGED codecVars

\* The engine validates the message and picks its transition: Rejected on
\* Validate < 0, deferred on 0, else the leader transition when
\* Leader(state), else the follower transition when Follower(state).
EngineDispatch ==
  /\ halted = ""
  /\ fw.pc = "received"
  /\ LET m == EOMMsg(fw.Minute)
         v == Validate(m, State)
     IN fw' = IF v < 0 THEN [fw EXCEPT !.pc = "idle", !.life = "Rejected"]
              ELSE IF v = 0 THEN [fw EXCEPT !.pc = "idle", !.life = "Deferred"]
              ELSE IF Leader(m, State)
              THEN [fw EXCEPT !.pc = "leader", !.life = "RoleDetermined",
                              !.role = "leader"]
              ELSE IF Follower(m, State)
              THEN [fw EXCEPT !.pc = "replay", !.life = "RoleDetermined",
                              !.role = "follower", !.frames = <<1>>,
                              !.result = "running"]
              ELSE [fw EXCEPT !.pc = "idle", !.life = "Executed"]
  /\ UNCHANGED <<plist, networkNumber, serverState, dblocks, inQ, outQ,
                 leaderQ, lw, trace, published, halted, arrivals>>
  /\ UNCHANGED codecVars

\* FollowerExecute, the replay loop: the running call starts the
\* FollowerExecute of the next message of slot 0. A "msg" runs on its own;
\* an "eom" is a nested call of this function, which needs a stack frame.
FollowerReplay ==
  /\ halted = ""
  /\ fw.pc = "replay"
  /\ LET depth == Len(fw.frames)
         k == fw.frames[depth]
     IN /\ k <= Len(plist)
        /\ trace' = Append(trace, Event("begin", RangeIndex(plist, k), depth))
        /\ IF plist[RangeIndex(plist, k)] = "msg"
           THEN /\ fw' = [fw EXCEPT !.pc = "replaying"]
                /\ UNCHANGED halted
           ELSE IF depth = MaxDepth
                THEN Abort("stack overflow")
                ELSE /\ fw' = [fw EXCEPT !.frames = Append(fw.frames, 1)]
                     /\ UNCHANGED halted
  /\ UNCHANGED <<plist, networkNumber, serverState, dblocks, inQ, outQ,
                 leaderQ, lw, published, arrivals>>
  /\ UNCHANGED codecVars

\* The FollowerExecute of a replayed message returns: nil, and the loop
\* goes on, or an error, and the loop panics.
FollowerReplayed ==
  /\ halted = ""
  /\ fw.pc = "replaying"
  /\ LET depth == Len(fw.frames)
         k == fw.frames[depth]
     IN \E failed \in BOOLEAN :
          /\ trace' = Append(trace, Event(IF failed THEN "error" ELSE "end",
                                          RangeIndex(plist, k), depth))
          /\ IF ReplayPanics(failed)
             THEN Abort("replay")
             ELSE /\ fw' = [fw EXCEPT !.pc = "replay", !.frames[depth] = k + 1]
                  /\ UNCHANGED halted
  /\ UNCHANGED <<plist, networkNumber, serverState, dblocks, inQ, outQ,
                 leaderQ, lw, published, arrivals>>
  /\ UNCHANGED codecVars

\* The call on top of the stack returns nil: the engine's call is done, a
\* nested call hands back to the loop that made it.
Returned1(f, depth) ==
  IF depth = 1
  THEN [f EXCEPT !.pc = "idle", !.life = "Executed", !.frames = <<>>,
                 !.result = "returned"]
  ELSE [f EXCEPT !.pc = "replay",
                 !.frames = [SubSeq(f.frames, 1, depth - 1)
                               EXCEPT ![depth - 1] = @ + 1]]

\* FollowerExecute after the loop: EndOfPeriod, the network switch, and in
\* the last minute ProcessEndOfBlock; then the send to the leader's queue
\* (server mode, last minute) or the return.
FollowerClose ==
  /\ halted = ""
  /\ fw.pc = "replay"
  /\ LET depth == Len(fw.frames)
         ended == EndOfPeriod(trace, fw.Minute, depth)
     IN /\ fw.frames[depth] > Len(plist)
        /\ IF ProfilePanics(networkNumber)
           THEN /\ Abort("profile")
                /\ trace' = ended
                /\ UNCHANGED dblocks
           ELSE IF LastMinute(fw.Minute)
           THEN /\ trace' = Append(ended, Event("ProcessEndOfBlock", 0, depth))
                /\ dblocks' = dblocks + 1
                /\ fw' = IF InServerMode(State)
                          THEN [fw EXCEPT !.pc = "enqueue"]
                          ELSE Returned1(fw, depth)
                /\ UNCHANGED halted
           ELSE /\ trace' = ended
                /\ fw' = Returned1(fw, depth)
                /\ UNCHANGED <<dblocks, halted>>
  /\ UNCHANGED <<plist, networkNumber, serverState, inQ, outQ, leaderQ, lw,
                 published, arrivals>>
  /\ UNCHANGED codecVars

\* state.LeaderInMsgQueue() <- m: blocks while the queue is full.
FollowerEnqueue ==
  /\ halted = ""
  /\ fw.pc = "enqueue"
  /\ CanSend(leaderQ)
  /\ leaderQ' = ChanSend(leaderQ, EOMMsg(fw.Minute))
  /\ trace' = Append(trace, Event("LeaderInMsgQueue", fw.Minute, Len(fw.frames)))
  /\ fw' = Returned1(fw, Len(fw.frames))
  /\ UNCHANGED <<plist, networkNumber, serverState, dblocks, inQ, outQ, lw,
                 published, halted, arrivals>>
  /\ UNCHANGED codecVars

\* The leader worker takes a minute-close message off its queue and runs
\* its LeaderExecute: a new DBS message with the previous directory block's
\* key, signed by the node. Sign's error is not looked at.
LeaderBuild ==
  /\ halted = ""
  /\ lw.pc = "idle"
  /\ leaderQ # <<>>
  /\ leaderQ' = Tail(leaderQ)
  /\ \E signed \in BOOLEAN :
       lw' = [pc |-> "sendOut", dbm |-> DBSMsg(PreviousKeyMR, signed),
              keyMR |-> PreviousKeyMR, result |-> "running"]
  /\ published' = <<>>
  /\ UNCHANGED <<plist, networkNumber, serverState, dblocks, inQ, outQ, fw,
                 trace, halted, arrivals>>
  /\ UNCHANGED codecVars

\* state.NetworkOutMsgQueue() <- DBM
LeaderSendOut ==
  /\ halted = ""
  /\ lw.pc = "sendOut"
  /\ CanSend(outQ)
  /\ outQ' = ChanSend(outQ, lw.dbm)
  /\ published' = Append(published, [queue |-> "out", msg |-> lw.dbm])
  /\ lw' = [lw EXCEPT !.pc = "sendIn"]
  /\ UNCHANGED <<plist, networkNumber, serverState, dblocks, inQ, leaderQ,
                 fw, trace, halted, arrivals>>
  /\ UNCHANGED codecVars

\* state.InMsgQueue() <- DBM, and return nil
LeaderSendIn ==
  /\ halted = ""
  /\ lw.pc = "sendIn"
  /\ CanSend(inQ)
  /\ inQ' = ChanSend(inQ, lw.dbm)
  /\ published' = Append(published, [queue |-> "in", msg |-> lw.dbm])
  /\ lw' = [lw EXCEPT !.pc = "idle", !.result = "returned"]
  /\ UNCHANGED <<plist, networkNumber, serverState, dblocks, outQ, leaderQ,
                 fw, trace, halted, arrivals>>
  /\ UNCHANGED codecVars

\* The node at rest, for the behaviours of the codec alone.
ExecQuiet ==
  /\ plist = <<>>
  /\ networkNumber = NETWORK_LOCAL
  /\ serverState = SERVER_MODE
  /\ dblocks = 0
  /\ inQ = <<>>
  /\ outQ = <<>>
  /\ leaderQ = <<>>
  /\ fw = IdleFollower
  /\ lw = IdleLeader
  /\ trace = <<>>
  /\ published = <<>>
  /\ halted = ""
  /\ arrivals = 0

\* No message in hand, for the behaviours of the node alone.
CodecQuiet ==
  /\ src = ZeroEOM
  /\ dst = ZeroEOM
  /\ call = NoCall
  /\ sent = NoSent
  /\ signedAs = <<>>
  /\ built = 0

Init == ExecInit /\ CodecQuiet

Next ==
  \/ NetDeliver
  \/ NetSend
  \/ EngineReceive
  \/ EngineDispatch
  \/ FollowerReplay
  \/ FollowerReplayed
  \/ FollowerClose
  \/ FollowerEnqueue
  \/ LeaderBuild
  \/ LeaderSendOut
  \/ LeaderSendIn

\* The node: network, engine with the follower transition, leader worker.
Spec == Init /\ [][Next]_vars

\* The node with its goroutines scheduled fairly: a FollowerExecute that can
\* take its next step takes it, and a send that waits on a full queue goes
\* through if the queue has room again and again. Nothing is assumed of
\* the consumers of the queues.
Fairness ==
  /\ WF_vars(FollowerReplay)
  /\ WF_vars(FollowerReplayed)
  /\ WF_vars(FollowerClose)
  /\ SF_vars(FollowerEnqueue)
  /\ SF_vars(LeaderSendOut)
  /\ SF_vars(LeaderSendIn)

SpecLive == Init /\ [][Next]_vars /\ Fairness

\* -------------------------------------------------- the codec scenarios


\* One message, encoded and decoded into new receivers.
CodecNext ==
  \/ SignSrc
  \/ GetHashSrc
  \/ GetHashDst
  \/ DecodeFresh

InitCodec == CodecInit /\ ExecQuiet

SpecCodec == InitCodec /\ [][CodecNext]_vars

\* Signing, assigning and verifying one message.
SignNext ==
  \/ SignSrc
  \/ MutateSrc
  \/ VerifySrc

SpecSign == InitCodec /\ [][SignNext]_vars

\* A receiver that keeps one EOM for the messages of successive minutes.
InitReuse ==
  /\ CodecInit
  /\ ExecQuiet
  /\ src.Timestamp = 258
  /\ src.DirectoryBlockHeight = 66051
  /\ src.IdentityChainID = [i \in 1..HashLen |-> 17]

ReuseNext ==
  \/ SignSrc
  \/ GetHashSrc
  \/ GetHashDst
  \/ DecodeFresh
  \/ DecodeReuse
  \/ NextMessage

SpecReuse == InitReuse /\ [][ReuseNext]_vars

\* ------------------------------------------------------ codec properties

\* The last call unmarshalled bytes of a message whose minute is in range.
DecodedValid == call.op = "Unmarshal" /\ sent.m.Minute \in 0..9

\* C1: a message with its minute in 0..9, signed or not, marshalled whole
\* and unmarshalled into a new EOM decodes without error to the same
\* timestamp, minute, height, identity chain id and signature, and GetHash
\* of the decoded message returns what GetHash of the original returns.
C1_RoundTrip ==
  (DecodedValid /\ call.fresh /\ sent.cut = Len(sent.full))
    => /\ call.err = NoErr
       /\ SignedFields(dst) = SignedFields(sent.m)
       /\ dst.Signature = sent.m.Signature
       /\ ~GetHash(dst).panic
       /\ GetHash(dst).ret = GetHash(sent.m).ret

\* A signed message of the last minute, its hash already read by the
\* sender, has gone through the round trip.
C1_Witness ==
  /\ DecodedValid /\ call.fresh /\ sent.cut = Len(sent.full)
  /\ sent.m.Minute = 9
  /\ sent.m.DirectoryBlockHeight = 66051
  /\ sent.m.Signature # NoSig
  /\ sent.m.hash # NoHash
  /\ dst.Signature # NoSig

\* The input of the last UnmarshalBinaryData holds a minute byte, and it is
\* not in 0..9.
MinuteByteBad ==
  /\ call.op = "Unmarshal"
  /\ Len(call.data) >= TsLen + 2
  /\ call.data[TsLen + 2] \notin 0..9

\* C2: unmarshalling a payload whose minute byte is outside 0..9 returns
\* the out-of-range error and a nil slice: never success, and nothing of
\* the payload is returned.
C2_RangeRejection ==
  MinuteByteBad => call.err = "OutOfRange" /\ call.newDataNil

\* A whole signed message with minute byte 10 was refused.
C2_Witness ==
  /\ MinuteByteBad
  /\ call.data[TsLen + 2] = 10
  /\ call.data = sent.full
  /\ sent.m.Signature # NoSig
  /\ call.err = "OutOfRange"

\* The bytes given to the last UnmarshalBinaryData are the payload of a
\* signed message without its signature: the encoding of the same message
\* unsigned.
CutIsUnsignedForm ==
  /\ sent.m.Signature # NoSig
  /\ sent.cut = Len(MarshalForSignature(sent.m))

\* C3 as claimed: unmarshalling any proper prefix of the encoding of a
\* message with a valid minute, signed or unsigned, fails.
C3_EveryPrefixFails ==
  (DecodedValid /\ sent.cut < Len(sent.full)) => call.err # NoErr

\* C3 amended: unmarshalling a proper prefix of a valid encoding fails,
\* except for the prefix of a signed encoding that ends with the identity
\* hash, which decodes as the same message without a signature.
C3_PrefixFailsButUnsignedForm ==
  (DecodedValid /\ sent.cut < Len(sent.full))
    => IF CutIsUnsignedForm
       THEN /\ call.err = NoErr
            /\ SignedFields(dst) = SignedFields(sent.m)
            /\ dst.Signature = NoSig
       ELSE call.err # NoErr

\* A signed encoding cut inside its signature was refused.
C3_Witness ==
  /\ DecodedValid
  /\ sent.m.Signature # NoSig
  /\ sent.cut = Len(sent.full) - 1
  /\ call.err = "TruncatedInput"

\* C8: VerifySignature on a message without a signature fails with an
\* error; on a signed message it returns true while the signed fields are
\* those it was signed with, and false once one of them differs.
C8_SignatureIntegrity ==
  call.op = "Verify"
    => IF src.Signature = NoSig
       THEN ~call.ok /\ call.err # NoErr
       ELSE /\ call.err = NoErr
            /\ call.ok <=> (signedAs = SignedFields(src))

\* VerifySignature returned false for a signed message whose minute alone
\* was assigned after signing.
C8_Witness ==
  /\ call.op = "Verify"
  /\ src.Signature # NoSig
  /\ signedAs[1] = src.Timestamp
  /\ signedAs[2] # src.Minute
  /\ signedAs[3] = src.DirectoryBlockHeight
  /\ signedAs[4] = src.IdentityChainID
  /\ ~call.ok

\* C10 as claimed: after a successful UnmarshalBinary, into a new EOM or
\* into one whose hash was read before, GetHash returns the hash of the
\* payload the message has now.
C10_HashOfCurrentPayload ==
  (call.op = "Unmarshal" /\ call.err = NoErr)
    => GetHash(dst).ret = Sha(MarshalForSignature(dst))

\* The input of the last UnmarshalBinaryData ends where the decoder indexes
\* or slices past it: it is empty, or ends right after the timestamp, or
\* inside the four bytes of the height.
CutFaults ==
  /\ call.op = "Unmarshal"
  /\ \/ Len(call.data) = 0
     \/ Len(call.data) = 1 + TsLen
     \/ /\ Len(call.data) \in (2 + TsLen)..(5 + TsLen)
        /\ call.data[TsLen + 2] \in 0..9

\* C12: UnmarshalBinaryData returns for every input, the empty one and every
\* truncation included, with nil error or with an error; an index or slice
\* out of range inside it comes back as an error and does not abort the
\* node; and the node's state is what it was before the decode.
C12_DecodeTotal ==
  /\ halted = ""
  /\ ExecQuiet
  /\ call.op = "Unmarshal"
       => /\ ~call.panic
          /\ call.err \in {NoErr, "Recovered", "OutOfRange", "TruncatedInput"}
          /\ CutFaults <=> call.err = "Recovered"

\* The decoder was given a signed message cut inside its height, and the
\* fault came back as an error.
C12_Witness ==
  /\ CutFaults
  /\ Len(call.data) = 3 + TsLen
  /\ sent.m.Signature # NoSig
  /\ call.err = "Recovered"
  /\ ~call.panic

\* C11 as claimed: every EOM there is, the sender's as NewEOM built it and
\* the receiver's as UnmarshalBinary left it, whether it succeeded or failed,
\* has its Minute in 0..9.
C11_MinuteInvariant ==
  /\ src.Minute \in 0..9
  /\ dst.Minute \in 0..9

\* Bytes of a payload up to and including the identity hash.
PayloadLen == 1 + TsLen + 1 + 4 + HashLen

\* C15 as claimed: after a successful UnmarshalBinary, into a new EOM or into
\* one that held a signature, the message has a signature exactly when bytes
\* followed the identity hash in the input.
C15_SignatureIffBytesRemain ==
  (call.op = "Unmarshal" /\ call.err = NoErr)
    => (dst.Signature # NoSig <=> Len(call.data) > PayloadLen)

\* The payload laid out field by field: type tag, timestamp, minute, height
\* (four bytes, big-endian), identity chain id.
PayloadLayout(m) ==
  /\ Len(MarshalForSignature(m)) = PayloadLen
  /\ MarshalForSignature(m)[1] = EOM_MSG
  /\ BEValue(SubSeq(MarshalForSignature(m), 2, 1 + TsLen)) = m.Timestamp
  /\ MarshalForSignature(m)[2 + TsLen] = m.Minute
  /\ BEValue(SubSeq(MarshalForSignature(m), 3 + TsLen, 6 + TsLen))
       = m.DirectoryBlockHeight
  /\ SubSeq(MarshalForSignature(m), 7 + TsLen, PayloadLen) = m.IdentityChainID

\* C16: Sign changes the Signature field and nothing else, so the payload
\* and the hash GetHash returns are the same after it as before; and at
\* every moment the payload is the signed fields in their order and the
\* wire form is the payload, followed by the signature's bytes when there
\* is a signature.
C16_SignFrame ==
  /\ [](/\ PayloadLayout(src)
        /\ MarshalBinary(src) =
             (IF src.Signature = NoSig THEN MarshalForSignature(src)
              ELSE MarshalForSignature(src)
                     \o <<src.Signature.Pub>> \o src.Signature.Sig))
  /\ [][call'.op = "Sign"
          => /\ src' = [src EXCEPT !.Signature = src'.Signature]
             /\ src'.Signature # NoSig
             /\ MarshalForSignature(src') = MarshalForSignature(src)
             /\ GetHash(src').ret = GetHash(src).ret]_vars

\* A message of the last minute whose hash was read before has been signed
\* with the second key.
C16_Witness ==
  /\ call.op = "Sign"
  /\ src.hash # NoHash
  /\ src.Signature.Pub = PubOf(2)
  /\ src.Minute = 9

\* The bytes of the last input that follow the fields the decoder read: the
\* payload, and the signature when bytes followed the payload.
Unconsumed ==
  IF Len(call.data) > PayloadLen
  THEN Drop(call.data, PayloadLen + 1 + SigLen)
  ELSE Drop(call.data, PayloadLen)

\* C20 as claimed: on success UnmarshalBinaryData returns the bytes of its
\* input it did not consume, fewer than it was given; on every failure, a
\* recovered fault included, it returns a nil slice.
C20_RemainderReturned ==
  call.op = "Unmarshal"
    => IF call.err = NoErr
       THEN /\ call.newData = Unconsumed
            /\ Len(call.newData) < Len(call.data)
       ELSE call.newDataNil

\* ------------------------------------------------------- node properties

\* The replays the engine's FollowerExecute call itself started and saw
\* return, in order.
IsOwnReplay(e) == e.depth = 1 /\ e.ev \in {"begin", "end"}
OwnReplays == SelectSeq(trace, IsOwnReplay)

\* How often the running (or last) FollowerExecute called ProcessEndOfBlock.
EndOfBlockCalls ==
  Cardinality({i \in DOMAIN trace : trace[i].ev = "ProcessEndOfBlock"})

\* C4: FollowerExecute starts the follower-execution of the messages of
\* slot 0 one at a time in list order, the next only after the one before
\* has returned; a call that returns has replayed every message of the slot
\* once, before anything else it does.
C4_ReplayOrder ==
  /\ \A i \in DOMAIN OwnReplays :
       OwnReplays[i] =
         Event(IF i % 2 = 1 THEN "begin" ELSE "end", (i + 1) \div 2, 1)
  /\ fw.result = "returned"
       => /\ Len(OwnReplays) = 2 * Len(plist)
          /\ SubSeq(trace, 1, 2 * Len(plist)) = OwnReplays

\* A FollowerExecute has returned after replaying a slot of three messages.
C4_Witness ==
  /\ fw.result = "returned"
  /\ Len(plist) = 3
  /\ Len(OwnReplays) = 6

\* C5 as claimed: a FollowerExecute that has ended, by returning or by
\* aborting, has called ProcessEndOfBlock once if its minute is 9 and not at
\* all otherwise, whatever the process list and the node state.
C5_OncePerLastMinute ==
  fw.result \in {"returned", "fatal"}
    => EndOfBlockCalls = (IF fw.Minute = 9 THEN 1 ELSE 0)

\* C5 amended: a FollowerExecute of minute 9 that returns has called
\* ProcessEndOfBlock exactly once; one that aborts (a failed replay, an
\* unsupported network) has not called it; a FollowerExecute of another
\* minute never calls it.
C5_OnceWhenReturned ==
  /\ EndOfBlockCalls <= 1
  /\ fw.Minute # 9 => EndOfBlockCalls = 0
  /\ fw.result = "returned" /\ fw.Minute = 9 => EndOfBlockCalls = 1
  /\ fw.result = "fatal" => EndOfBlockCalls = 0

\* A FollowerExecute of minute 9 has returned after replaying messages.
C5_Witness ==
  /\ fw.result = "returned"
  /\ fw.Minute = 9
  /\ plist # <<>>
  /\ EndOfBlockCalls = 1

\* C6: FollowerExecute returns only on the local network; on main, on test
\* and on any other network number the call that gets to the network
\* switch aborts the node, and does nothing of what follows the switch.
C6_FatalUnlessLocal ==
  /\ fw.result = "returned" => networkNumber = NETWORK_LOCAL
  /\ networkNumber # NETWORK_LOCAL
       => /\ fw.pc # "enqueue"
          /\ \A i \in DOMAIN trace :
               /\ trace[i].ev \notin {"ProcessEndOfBlock", "LeaderInMsgQueue"}
               /\ trace[i].ev = "EndOfPeriod"
                    => fw.result = "fatal" /\ halted = "profile"

\* A FollowerExecute of the last minute has aborted on a network number that
\* is none of main, test and local.
C6_Witness ==
  /\ networkNumber \notin {NETWORK_MAIN, NETWORK_TEST, NETWORK_LOCAL}
  /\ fw.Minute = 9
  /\ fw.result = "fatal"
  /\ halted = "profile"

\* C7 as claimed: a LeaderExecute that has returned has sent one DBS message
\* with the previous directory block's key, validly signed, once to the
\* outbound queue and once to the inbound queue; no unsigned message is
\* ever sent.
C7_SelfDelivery ==
  /\ \A i \in DOMAIN published : published[i].msg.Signed
  /\ lw.result = "returned"
       => published = <<[queue |-> "out", msg |-> DBSMsg(lw.keyMR, TRUE)],
                        [queue |-> "in", msg |-> DBSMsg(lw.keyMR, TRUE)]>>

\* C9: in every node state Validate is 1, Leader false and Follower true
\* for a minute-close message; the engine never rejects or defers one,
\* never picks the leader transition for it, and once it has picked a
\* transition it is the follower transition.
C9_RoleDispatch ==
  /\ \A minute \in ExecMinutes :
       /\ Validate(EOMMsg(minute), State) = 1
       /\ ~Leader(EOMMsg(minute), State)
       /\ Follower(EOMMsg(minute), State)
  /\ fw.life \notin {"Rejected", "Deferred"}
  /\ fw.role # "leader"
  /\ fw.life \in {"RoleDetermined", "Executed"} => fw.role = "follower"

\* The engine has picked the follower transition for a last-minute message
\* on a node in server mode.
C9_Witness ==
  /\ fw.life = "RoleDetermined"
  /\ fw.role = "follower"
  /\ fw.Minute = 9
  /\ serverState = SERVER_MODE

\* How often the running (or last) FollowerExecute sent its message to the
\* leader's queue.
EnqueueCalls ==
  Cardinality({i \in DOMAIN trace : trace[i].ev = "LeaderInMsgQueue"})

\* A step of the running FollowerExecute: each records what it did.
FollowerStep == fw.result = "running" /\ trace' # trace

\* C13: a FollowerExecute sends its message to the leader's queue at most
\* once, only in minute 9 on a node in server mode and right after
\* ProcessEndOfBlock; one that returns has sent it exactly once in that case
\* and not at all in any other; a step of FollowerExecute leaves the leader's
\* queue alone unless it is that send, and never touches the outbound or
\* the inbound queue.
C13_LeaderReentry ==
  /\ [](/\ EnqueueCalls <= 1
        /\ \A i \in DOMAIN trace :
             trace[i].ev = "LeaderInMsgQueue"
               => /\ fw.Minute = 9
                  /\ serverState = SERVER_MODE
                  /\ i > 1
                  /\ trace[i - 1].ev = "ProcessEndOfBlock"
        /\ fw.result = "returned"
             => EnqueueCalls =
                  (IF fw.Minute = 9 /\ serverState = SERVER_MODE THEN 1 ELSE 0)
        /\ fw.result = "fatal" => EnqueueCalls = 0)
  /\ [][FollowerStep
          => /\ UNCHANGED <<inQ, outQ>>
             /\ IF EnqueueCalls' = EnqueueCalls
                THEN UNCHANGED leaderQ
                ELSE leaderQ' = Append(leaderQ, EOMMsg(fw.Minute))]_vars

\* A FollowerExecute of minute 9 on a node in server mode has returned with
\* its message in the leader's queue.
C13_Witness ==
  /\ fw.result = "returned"
  /\ fw.Minute = 9
  /\ serverState = SERVER_MODE
  /\ EnqueueCalls = 1
  /\ leaderQ = <<EOMMsg(9)>>

\* C14: when the FollowerExecute of a replayed message returns an error, the
\* running FollowerExecute aborts the node there and then: the error is the
\* last thing it did, no later message is replayed, EndOfPeriod and
\* ProcessEndOfBlock are not called, nothing is sent to the leader's queue,
\* and the call does not return.
C14_ReplayFailureFatal ==
  /\ \A i \in DOMAIN trace :
       trace[i].ev = "error"
         => /\ i = Len(trace)
            /\ i > 1
            /\ trace[i - 1] = Event("begin", trace[i].arg, trace[i].depth)
            /\ halted = "replay"
  /\ halted = "replay"
       => /\ fw.result = "fatal"
          /\ fw.pc = "replaying"
          /\ trace # <<>>
          /\ trace[Len(trace)].ev = "error"
          /\ \A i \in DOMAIN trace :
               trace[i].ev \notin
                 {"EndOfPeriod", "ProcessEndOfBlock", "LeaderInMsgQueue"}

\* The replay of the second of three messages failed in a FollowerExecute of
\* minute 9 on the local network, and the node aborted.
C14_Witness ==
  /\ halted = "replay"
  /\ Len(plist) = 3
  /\ fw.Minute = 9
  /\ networkNumber = NETWORK_LOCAL
  /\ trace = <<Event("begin", 1, 1), Event("end", 1, 1),
               Event("begin", 2, 1), Event("error", 2, 1)>>

\* What the engine's FollowerExecute call did itself, in order.
IsOwnEvent(e) == e.depth = 1
OwnEvents == SelectSeq(trace, IsOwnEvent)

\* C17: in one FollowerExecute the replays of slot 0 all come first, then
\* one EndOfPeriod with the message's minute, then the network switch, then
\* in minute 9 ProcessEndOfBlock, then the send to the leader's queue. So a
\* call that aborts in the switch has replayed the slot and called
\* EndOfPeriod, and has neither called ProcessEndOfBlock nor sent anything.
C17_StepOrder ==
  /\ \A i \in DOMAIN OwnEvents :
       /\ OwnEvents[i].ev = "EndOfPeriod"
            => /\ OwnEvents[i].arg = fw.Minute
               /\ i = 2 * Len(plist) + 1
               /\ SubSeq(OwnEvents, 1, i - 1) = OwnReplays
       /\ OwnEvents[i].ev = "ProcessEndOfBlock"
            => /\ i > 1
               /\ OwnEvents[i - 1].ev = "EndOfPeriod"
               /\ fw.Minute = 9
               /\ ~ProfilePanics(networkNumber)
       /\ OwnEvents[i].ev = "LeaderInMsgQueue"
            => /\ i > 1
               /\ OwnEvents[i - 1].ev = "ProcessEndOfBlock"
               /\ i = Len(OwnEvents)
  /\ fw.result = "returned"
       => /\ Len(OwnEvents) > 2 * Len(plist)
          /\ OwnEvents[2 * Len(plist) + 1] = Event("EndOfPeriod", fw.Minute, 1)
  /\ halted = "profile"
       => /\ OwnEvents = OwnReplays \o <<Event("EndOfPeriod", fw.Minute, 1)>>
          /\ Len(OwnReplays) = 2 * Len(plist)
          /\ EndOfBlockCalls = 0
          /\ EnqueueCalls = 0

\* A FollowerExecute of minute 9 on the main network has aborted in the
\* switch, after replaying two messages and calling EndOfPeriod(9).
C17_Witness ==
  /\ halted = "profile"
  /\ networkNumber = NETWORK_MAIN
  /\ fw.Minute = 9
  /\ trace = <<Event("begin", 1, 1), Event("end", 1, 1),
               Event("begin", 2, 1), Event("end", 2, 1),
               Event("EndOfPeriod", 9, 1)>>

\* A queue changed by a send of msg that found room, or by its consumer
\* taking the message at its head.
SentOn(q, qNext, msg) == Len(q) < QueueCap /\ qNext = Append(q, msg)
TakenFrom(q, qNext) == q # <<>> /\ qNext = Tail(q)

\* C18: LeaderExecute sends its message to the outbound queue first and to
\* the inbound queue second, and nothing to the inbound queue before the
\* outbound send is done; a send goes through only when the queue has room,
\* and then the message is in the queue once; no queue ever holds more than
\* its capacity, and the only other changes of a queue are its consumer
\* taking the head and, for the inbound queue, an arrival from the network.
C18_Backpressure ==
  /\ [](/\ Len(inQ) <= QueueCap
        /\ Len(outQ) <= QueueCap
        /\ Len(leaderQ) <= QueueCap
        /\ lw.pc = "sendOut" => published = <<>>
        /\ lw.pc = "sendIn" => published = <<[queue |-> "out", msg |-> lw.dbm]>>
        /\ lw.result = "returned"
             => published = <<[queue |-> "out", msg |-> lw.dbm],
                              [queue |-> "in", msg |-> lw.dbm]>>)
  /\ [][/\ (lw.pc = "sendOut" /\ lw' # lw)
             => SentOn(outQ, outQ', lw.dbm) /\ UNCHANGED inQ
        /\ (lw.pc = "sendIn" /\ lw' # lw) => SentOn(inQ, inQ', lw.dbm)
        /\ (fw.pc = "enqueue" /\ fw'.pc # "enqueue")
             => SentOn(leaderQ, leaderQ', EOMMsg(fw.Minute))
        /\ outQ' # outQ
             => \/ lw.pc = "sendOut" /\ SentOn(outQ, outQ', lw.dbm)
                \/ TakenFrom(outQ, outQ')
        /\ inQ' # inQ
             => \/ lw.pc = "sendIn" /\ SentOn(inQ, inQ', lw.dbm)
                \/ arrivals' = arrivals + 1 /\ Len(inQ') = Len(inQ) + 1
                \/ fw.pc = "idle" /\ TakenFrom(inQ, inQ')
        /\ leaderQ' # leaderQ
             => \/ fw.pc = "enqueue"
                     /\ SentOn(leaderQ, leaderQ', EOMMsg(fw.Minute))
                \/ lw.pc = "idle" /\ TakenFrom(leaderQ, leaderQ')]_vars

\* LeaderExecute has sent its message to the outbound queue and waits to
\* send it to the inbound queue, which is full.
C18_Witness ==
  /\ lw.pc = "sendIn"
  /\ Len(inQ) = QueueCap
  /\ published = <<[queue |-> "out", msg |-> lw.dbm]>>
  /\ halted = ""

\* Every queue has room again and again: its consumer drains it.
Drained ==
  /\ []<>(Len(inQ) < QueueCap)
  /\ []<>(Len(outQ) < QueueCap)
  /\ []<>(Len(leaderQ) < QueueCap)

\* C19: if the queues are drained, a FollowerExecute that was started ends,
\* by returning or by aborting the node, and a LeaderExecute that was
\* started returns unless the node aborts first; also when the queue it
\* sends to is full at the time, and when slot 0 holds minute-close messages.
C19_RunToCompletion ==
  Drained
    => /\ (fw.result = "running") ~> (fw.result \in {"returned", "fatal"})
       /\ (lw.result = "running") ~> (lw.result = "returned" \/ halted # "")

\* A FollowerExecute of minute 9 waits to send its message to the leader's
\* queue, which is full.
C19_Witness ==
  /\ fw.pc = "enqueue"
  /\ fw.result = "running"
  /\ Len(leaderQ) = QueueCap
  /\ halted = ""

====
